---- MODULE Spec2Model ----
(***************************************************************************)
(* Model of azurestack/resource_arm_loadbalancer_nat_pool.go: the create/  *)
(* update, read and delete handlers of the load balancer NAT pool          *)
(* sub-resource, run by concurrent workers against a remote load balancer  *)
(* store, under the per-load-balancer named lock.                          *)
(***************************************************************************)
EXTENDS Integers, Sequences, FiniteSets, TLC

\* ------------------------------------------------------------------ bounds
\* Number of handler invocations the orchestrator starts in one run.
MaxOps == 2
\* Number of wait cycles WaitForState makes before its timeout expires.
MaxWaits == 2

\* ------------------------------------------------------------- the universe
\* Workers of the orchestrator that run handlers concurrently.
Procs == {"w1", "w2"}
\* Workers are interchangeable: the first invocation of a run goes to this one.
FirstWorker == "w1"
LBNames == {"lbA", "lbB"}
PoolNames == {"pool1", "pool2"}

NoId == <<>>

\* Resource identifiers: the hierarchical path, as its key/value segments.
LoadBalancerId(l) == <<"loadBalancers", l>>
NatPoolId(l, n) == <<"loadBalancers", l, "inboundNatPools", n>>
FeipId(l, f) == <<"loadBalancers", l, "frontendIPConfigurations", f>>

\* parseAzureResourceID(id).Path[key]: the segment that follows `key`, "" if none.
RECURSIVE PathValue(_, _)
PathValue(rid, key) ==
  IF Len(rid) < 2 THEN ""
  ELSE IF rid[1] = key THEN rid[2]
  ELSE PathValue(SubSeq(rid, 3, Len(rid)), key)

\* parseAzureResourceID fails on an identifier with no segments.
parseAzureResourceIDFails(rid) == Len(rid) < 2

\* resourceGroupAndLBNameFromId: the load balancer's name from its identifier.
resourceGroupAndLBNameFromId(rid) == PathValue(rid, "loadBalancers")

\* pointer.FromInt32(int): conversion of an int to a 32-bit signed value. Every
\* integer of this model (a validated port number, 0..65535) lies within 32
\* bits, where the conversion keeps the value.
FromInt32(i) == i

\* ------------------------------------------------------------ desired state
\* schema.ResourceData of one invocation. (Every record constructor of this
\* module lists its fields in the order in which the field names first occur
\* in the module: TLC keeps records sorted in that order, and a record shared
\* by the initial states is then never reordered while workers read it.)
ResourceData(l, n, rid, c) ==
  [ name |-> n, loadbalancer_id |-> LoadBalancerId(l), id |-> rid,
    protocol |-> c.protocol,
    frontend_port_start |-> c.start, frontend_port_end |-> c.end,
    backend_port |-> c.backend,
    frontend_ip_configuration_name |-> c.feip,
    frontend_ip_configuration_id |-> NoId ]

\* The validated desired configurations the orchestrator may submit: one that
\* differs in every field from the pools the run starts with, and one naming a
\* frontend IP configuration that no load balancer has.
Configs ==
  { [protocol |-> "Udp", start |-> 1, end |-> 65535, backend |-> 80, feip |-> "feip2"],
    [protocol |-> "Udp", start |-> 1, end |-> 65535, backend |-> 80, feip |-> "missing"] }

NoConfig == [protocol |-> "", start |-> 0, end |-> 0, backend |-> 0, feip |-> ""]

NoData == ResourceData("lbA", "", NoId, NoConfig)

\* An imported record: the identifier, name and parent only.
ImportedData(l, n) ==
  ResourceData(l, n, NatPoolId(l, n), NoConfig)

\* --------------------------------------------------------- remote aggregate
Feip(l, f) == [Name |-> f, ID |-> FeipId(l, f)]

InitialFeips(l) == << Feip(l, "feip1"), Feip(l, "feip2") >>

NoLoadBalancer == [ID |-> NoId, InboundNatPools |-> <<>>, FrontendIPConfigurations |-> <<>>]

\* A fetched aggregate whose InboundNatPools pointer is nil: the record has no
\* such field.
WithoutInboundNatPools(agg) ==
  [ID |-> agg.ID, FrontendIPConfigurations |-> agg.FrontendIPConfigurations]

HasInboundNatPools(agg) == "InboundNatPools" \in DOMAIN agg

\* What retrieveLoadBalancerById hands to the handler for the aggregate `agg`:
\* the current full aggregate. InboundNatPools is a pointer to a slice (line
\* 108): of an aggregate that holds no NAT pool it may be nil as well as a
\* pointer to an empty slice.
FetchResponses(agg) ==
  IF agg.InboundNatPools = <<>> THEN {agg, WithoutInboundNatPools(agg)} ELSE {agg}

\* A SubResource that is present and whose ID is nil; NoId in the place of a
\* SubResource is the nil SubResource.
SubResourceWithoutId == << "SubResource", "ID", "nil" >>

\* &network.SubResource{ID: id} (lines 283-285).
SubResource(rid) == IF rid = NoId THEN SubResourceWithoutId ELSE rid

\* The NAT pools a load balancer may hold when the run starts.
InitialPool(l, n) ==
  [ Name |-> n, ID |-> NatPoolId(l, n), Protocol |-> "Tcp",
    FrontendPortRangeStart |-> 50000, FrontendPortRangeEnd |-> 50100,
    BackendPort |-> 22, FrontendIPConfiguration |-> FeipId(l, "feip1") ]

InitialPools(l) ==
  IF l = "lbA"
  THEN { <<>>, << InitialPool(l, "pool1") >>,
         << InitialPool(l, "pool1"), InitialPool(l, "pool2") >> }
  ELSE { <<>> }

\* The load balancers that may be absent from the remote when the run starts.
MayBeAbsent == {"lbA"}

Names(pools) == [i \in 1..Len(pools) |-> pools[i].Name]

NameSet(pools) == {pools[i].Name : i \in 1..Len(pools)}

RemoveAt(s, i) == SubSeq(s, 1, i - 1) \o SubSeq(s, i + 1, Len(s))

\* findLoadBalancerNatPoolByName: index of the first element named `name`, 0 if
\* none or if the aggregate has no collection.
findLoadBalancerNatPoolByName(lb, name) ==
  IF ~HasInboundNatPools(lb) THEN 0
  ELSE LET hits == {i \in 1..Len(lb.InboundNatPools) : lb.InboundNatPools[i].Name = name}
       IN IF hits = {} THEN 0 ELSE CHOOSE i \in hits : \A j \in hits : i <= j

\* findLoadBalancerFrontEndIpConfigurationByName: index of the first match, 0 if none.
findLoadBalancerFrontEndIpConfigurationByName(lb, name) ==
  LET hits == {i \in 1..Len(lb.FrontendIPConfigurations) :
                 lb.FrontendIPConfigurations[i].Name = name}
  IN IF hits = {} THEN 0 ELSE CHOOSE i \in hits : \A j \in hits : i <= j


expandWithoutLookupCheck(dd, lb) ==
  [err |-> FALSE,
   pool |-> [ Name |-> dd.name, ID |-> NoId, Protocol |-> dd.protocol,
              FrontendPortRangeStart |-> FromInt32(dd.frontend_port_start),
              FrontendPortRangeEnd |-> FromInt32(dd.frontend_port_end),
              BackendPort |-> FromInt32(dd.backend_port),
              FrontendIPConfiguration |->
                LET idx == findLoadBalancerFrontEndIpConfigurationByName(
                             lb, dd.frontend_ip_configuration_name)
                IN IF idx = 0 THEN NoId
                   ELSE SubResource(lb.FrontendIPConfigurations[idx].ID) ]]

\* expandAzureRmLoadBalancerNatPool: the element built from the desired state,
\* or an error when the named frontend IP configuration is not in the aggregate.
expandAzureRmLoadBalancerNatPool(dd, lb) ==
  LET v == dd.frontend_ip_configuration_name
      idx == findLoadBalancerFrontEndIpConfigurationByName(lb, v)
      properties ==
        [ Protocol |-> dd.protocol,
          FrontendPortRangeStart |-> FromInt32(dd.frontend_port_start),
          FrontendPortRangeEnd |-> FromInt32(dd.frontend_port_end),
          BackendPort |-> FromInt32(dd.backend_port) ]
  IN IF v # "" /\ idx = 0
     THEN [err |-> TRUE, pool |-> <<>>]
     ELSE [err |-> FALSE,
           pool |-> [ Name |-> dd.name, ID |-> NoId,
                      Protocol |-> properties.Protocol,
                      FrontendPortRangeStart |-> properties.FrontendPortRangeStart,
                      FrontendPortRangeEnd |-> properties.FrontendPortRangeEnd,
                      BackendPort |-> properties.BackendPort,
                      FrontendIPConfiguration |->
                        IF v # "" THEN SubResource(lb.FrontendIPConfigurations[idx].ID)
                        ELSE NoId ]]

SpliceNatPoolAppendOnly(lb, newNatPool, name) == Append(lb.InboundNatPools, newNatPool)

SpliceNatPoolDropsNew(lb, newNatPool, name) ==
  LET natPools == Append(lb.InboundNatPools, newNatPool)
      existingNatPoolIndex == findLoadBalancerNatPoolByName(lb, name)
  IN IF existingNatPoolIndex # 0
     THEN RemoveAt(natPools, Len(natPools))
     ELSE natPools

\* The splice that overwrites the old copy of the same name where it stands.
SpliceNatPoolInPlace(lb, newNatPool, name) ==
  LET existingNatPoolIndex == findLoadBalancerNatPoolByName(lb, name)
  IN IF existingNatPoolIndex # 0
     THEN [lb.InboundNatPools EXCEPT ![existingNatPoolIndex] = newNatPool]
     ELSE Append(lb.InboundNatPools, newNatPool)

\* Lines 108-118: append the new element, then drop the old copy of the same name.
SpliceNatPool(lb, newNatPool, name) ==
  LET natPools == Append(lb.InboundNatPools, newNatPool)
      existingNatPoolIndex == findLoadBalancerNatPoolByName(lb, name)
  IN IF existingNatPoolIndex # 0 /\ name = lb.InboundNatPools[existingNatPoolIndex].Name
     THEN RemoveAt(natPools, existingNatPoolIndex)
     ELSE natPools

RemoveNatPoolOffByOne(lb, index) == RemoveAt(lb.InboundNatPools, index + 1)

\* Lines 239-241: remove the element at `index` from the collection.
RemoveNatPool(lb, index) == RemoveAt(lb.InboundNatPools, index)

\* A re-fetched aggregate whose elements carry no identifier (nil ID pointers).
WithoutNatPoolIds(agg) ==
  [ agg EXCEPT !.InboundNatPools =
      [i \in 1..Len(agg.InboundNatPools) |->
         [agg.InboundNatPools[i] EXCEPT !.ID = NoId]] ]

\* Line 145 dereferences the ID pointer of every element of the desired name
\* the loop of lines 143-147 meets: a nil ID panics.
CreatedNatPoolIdPanics(read, name) ==
  \E i \in 1..Len(read.InboundNatPools) :
    read.InboundNatPools[i].Name = name /\ read.InboundNatPools[i].ID = NoId

CreatedNatPoolIdOfParent(read, name) == read.ID

\* Lines 142-147: the identifier of the (last) re-fetched element named `name`.
CreatedNatPoolId(read, name) ==
  LET hits == {i \in 1..Len(read.InboundNatPools) : read.InboundNatPools[i].Name = name}
  IN IF hits = {} THEN NoId
     ELSE read.InboundNatPools[CHOOSE i \in hits : \A j \in hits : j <= i].ID

LockKeyByName(dd) == dd.name

LockKeyGlobal(dd) == <<"loadBalancers">>

\* The key under which a handler takes the named lock: its parent's identifier.
LockKey(dd) == dd.loadbalancer_id

\* The remote store persisting a submitted aggregate: every element gets its
\* fully-qualified identifier.
Persist(l, agg) ==
  [ agg EXCEPT !.InboundNatPools =
      [i \in 1..Len(agg.InboundNatPools) |->
         [agg.InboundNatPools[i] EXCEPT !.ID = NatPoolId(l, agg.InboundNatPools[i].Name)]] ]

\* -------------------------------------------------------------------- state
VARIABLES
  remote,    \* load balancer name -> [lb, exists]: the remote store
  locks,     \* the named-lock registry: set of <<key, holder>>
  pc,        \* worker -> position in its handler
  kind,      \* worker -> "create_or_update" | "read" | "delete" | "none"
  d,         \* worker -> the handler's ResourceData
  d0,        \* worker -> the ResourceData the handler was invoked with
  lb,        \* worker -> the handler's local copy of the parent aggregate
  outcome,   \* worker -> "none" | "ok" | "error" | "panic"
  calls,     \* worker -> the remote calls the invocation has made, in order
  waits,     \* worker -> wait cycles of WaitForState so far
  started,   \* handler invocations started so far
  applied,   \* load balancer name -> names a serial run of the submits leaves
  polled,    \* worker -> provisioning states WaitForState has observed, in order
  failed,    \* worker -> what failed, while the handler returns its error
  cancelled  \* the provider's StopContext has been cancelled

vars == << remote, locks, pc, kind, d, d0, lb, outcome, calls, waits, started, applied,
           polled, failed, cancelled >>

ParentOf(dd) == resourceGroupAndLBNameFromId(dd.loadbalancer_id)

Held(key) == \E e \in locks : e[1] = key

Holds(p) == \E e \in locks : e[2] = p

Init ==
  /\ \E absent \in SUBSET MayBeAbsent :
       \E ps \in [LBNames -> UNION {InitialPools(l) : l \in LBNames}] :
         /\ \A l \in LBNames :
              ps[l] \in InitialPools(l) /\ (l \in absent => ps[l] = <<>>)
         /\ remote = [l \in LBNames |->
                        [lb |-> [ID |-> LoadBalancerId(l),
                                 InboundNatPools |-> ps[l],
                                 FrontendIPConfigurations |-> InitialFeips(l)],
                         exists |-> l \notin absent]]
  /\ locks = {}
  /\ pc = [p \in Procs |-> "idle"]
  /\ kind = [p \in Procs |-> "none"]
  /\ d = [p \in Procs |-> NoData]
  /\ d0 = [p \in Procs |-> NoData]
  /\ lb = [p \in Procs |-> NoLoadBalancer]
  /\ outcome = [p \in Procs |-> "none"]
  /\ calls = [p \in Procs |-> <<>>]
  /\ waits = [p \in Procs |-> 0]
  /\ started = 0
  /\ applied = [l \in LBNames |-> NameSet(remote[l].lb.InboundNatPools)]
  /\ polled = [p \in Procs |-> <<>>]
  /\ failed = [p \in Procs |-> "none"]
  /\ cancelled = FALSE

\* Where a handler starts: the mutating handlers take the parent's lock first
\* (lines 89-91, 221-223), read takes none (lines 170-177).
FirstStepDeleteUnlocked(k) ==
  IF k = "create_or_update" THEN "lock" ELSE IF k = "delete" THEN "fetch" ELSE "read"

FirstStep(k) == IF k = "read" THEN "read" ELSE "lock"

\* ------------------------------------------------------- the orchestrator
\* The orchestrator invokes a handler on an idle worker.
Invoke(p, k, dd) ==
  /\ pc[p] = "idle"
  /\ started = 0 => p = FirstWorker
  /\ started < MaxOps
  /\ ~cancelled
  /\ started' = started + 1
  /\ kind' = [kind EXCEPT ![p] = k]
  /\ d' = [d EXCEPT ![p] = dd]
  /\ d0' = [d0 EXCEPT ![p] = dd]
  /\ pc' = [pc EXCEPT ![p] = FirstStep(k)]
  /\ UNCHANGED << remote, locks, lb, outcome, calls, waits, applied,
                  polled, failed, cancelled >>

InvokeCreateUpdate(p) ==
  \E l \in LBNames, n \in PoolNames, c \in Configs :
    \E id \in {NoId, NatPoolId(l, n)} :
      Invoke(p, "create_or_update", ResourceData(l, n, id, c))

InvokeRead(p) ==
  \E l \in LBNames, n \in PoolNames : Invoke(p, "read", ImportedData(l, n))

InvokeDelete(p) ==
  \E l \in LBNames, n \in PoolNames : Invoke(p, "delete", ImportedData(l, n))

\* The handler has returned and the worker is free again.
Finish(p) ==
  /\ pc[p] = "done"
  /\ pc' = [pc EXCEPT ![p] = "idle"]
  /\ kind' = [kind EXCEPT ![p] = "none"]
  /\ d' = [d EXCEPT ![p] = NoData]
  /\ d0' = [d0 EXCEPT ![p] = NoData]
  /\ lb' = [lb EXCEPT ![p] = NoLoadBalancer]
  /\ outcome' = [outcome EXCEPT ![p] = "none"]
  /\ calls' = [calls EXCEPT ![p] = <<>>]
  /\ failed' = [failed EXCEPT ![p] = "none"]
  /\ UNCHANGED << remote, locks, waits, started, applied, polled, cancelled >>


\* ------------------------------------------------------ shared handler steps
ReturnWithoutDefer(p, out) ==
  /\ outcome' = [outcome EXCEPT ![p] = out]
  /\ pc' = [pc EXCEPT ![p] = IF out = "ok" THEN "unlock" ELSE "done"]

\* A mutating handler returns `out`; its deferred UnlockByID is still to run.
Return(p, out) ==
  /\ outcome' = [outcome EXCEPT ![p] = out]
  /\ pc' = [pc EXCEPT ![p] = "unlock"]

Called(p, c) == calls' = [calls EXCEPT ![p] = Append(calls[p], c)]

\* The results a remote call made with the StopContext can have: once the
\* context is cancelled the call returns the context's error.
CallResults(all) == IF cancelled THEN {"err"} ELSE all

\* The handler is returning the error of the failed call `c` (or WaitForState's
\* "timeout" or "unexpected state").
Failed(p, c) == failed' = [failed EXCEPT ![p] = c]

\* The StateChangeConf of lines 157-162 is out of scope once the handler has
\* moved past WaitForState.
ForgetPoll(p) ==
  /\ waits' = [waits EXCEPT ![p] = 0]
  /\ polled' = [polled EXCEPT ![p] = <<>>]

SetId(p, id) == d' = [d EXCEPT ![p].id = id]

\* locks.ByID(loadBalancerID): blocks until the key is free, then holds it.
Lock(p) ==
  /\ pc[p] = "lock"
  /\ ~Held(LockKey(d[p]))
  /\ locks' = locks \cup {<< LockKey(d[p]), p >>}
  /\ pc' = [pc EXCEPT ![p] = "fetch"]
  /\ UNCHANGED << remote, kind, d, d0, lb, outcome, calls, waits, started, applied,
                  polled, failed, cancelled >>

\* defer locks.UnlockByID(loadBalancerID): runs when the handler returns or panics.
Unlock(p) ==
  /\ pc[p] = "unlock"
  /\ locks' = {e \in locks : e[1] # LockKey(d[p])}
  /\ pc' = [pc EXCEPT ![p] = "done"]
  /\ ForgetPoll(p)
  /\ failed' = [failed EXCEPT ![p] = "none"]
  /\ UNCHANGED << remote, kind, d, d0, lb, outcome, calls, started, applied, cancelled >>

FetchKeepsId(p) ==
  /\ pc[p] = "fetch"
  /\ Called(p, "fetch")
  /\ \E res \in CallResults({"ok", "err"}), l \in {ParentOf(d[p])} :
     \E loadBalancer \in FetchResponses(remote[l].lb) :
       IF res = "err"
       THEN Return(p, "error") /\ Failed(p, "fetch") /\ UNCHANGED << d, lb >>
       ELSE IF ~remote[l].exists
       THEN Return(p, "ok") /\ UNCHANGED << d, lb, failed >>
       ELSE /\ lb' = [lb EXCEPT ![p] = loadBalancer]
            /\ pc' = [pc EXCEPT ![p] = "build"]
            /\ UNCHANGED << d, outcome, failed >>
  /\ UNCHANGED << remote, locks, kind, d0, waits, started, applied, polled, cancelled >>

\* The fetch that clears the identifier when the call fails.
FetchClearsIdOnError(p) ==
  /\ pc[p] = "fetch"
  /\ Called(p, "fetch")
  /\ \E res \in CallResults({"ok", "err"}), l \in {ParentOf(d[p])} :
     \E loadBalancer \in FetchResponses(remote[l].lb) :
       IF res = "err"
       THEN SetId(p, NoId) /\ Return(p, "error") /\ Failed(p, "fetch") /\ UNCHANGED lb
       ELSE IF ~remote[l].exists
       THEN SetId(p, NoId) /\ Return(p, "ok") /\ UNCHANGED << lb, failed >>
       ELSE /\ lb' = [lb EXCEPT ![p] = loadBalancer]
            /\ pc' = [pc EXCEPT ![p] = "build"]
            /\ UNCHANGED << d, outcome, failed >>
  /\ UNCHANGED << remote, locks, kind, d0, waits, started, applied, polled, cancelled >>

\* retrieveLoadBalancerById at the head of both mutating handlers (lines 93-101
\* and 225-232): error, not found (clear the identifier, succeed) or the
\* aggregate, whose empty InboundNatPools collection may come as a nil pointer.
Fetch(p) ==
  /\ pc[p] = "fetch"
  /\ Called(p, "fetch")
  /\ \E res \in CallResults({"ok", "err"}), l \in {ParentOf(d[p])} :
     \E loadBalancer \in FetchResponses(remote[l].lb) :
       IF res = "err"
       THEN Return(p, "error") /\ Failed(p, "fetch") /\ UNCHANGED << d, lb >>
       ELSE IF ~remote[l].exists
       THEN SetId(p, NoId) /\ Return(p, "ok") /\ UNCHANGED << lb, failed >>
       ELSE /\ lb' = [lb EXCEPT ![p] = loadBalancer]
            /\ pc' = [pc EXCEPT ![p] = "build"]
            /\ UNCHANGED << d, outcome, failed >>
  /\ UNCHANGED << remote, locks, kind, d0, waits, started, applied, polled, cancelled >>

\* Lines 103-122: build the new element and splice it into the local copy.
\* Line 108 dereferences the InboundNatPools pointer unchecked: on an aggregate
\* without the collection the handler panics, after a successful expand.
CreateUpdateBuild(p) ==
  /\ pc[p] = "build"
  /\ kind[p] = "create_or_update"
  /\ LET e == expandAzureRmLoadBalancerNatPool(d[p], lb[p]) IN
       IF e.err
       THEN Return(p, "error") /\ UNCHANGED lb
       ELSE IF ~HasInboundNatPools(lb[p])
       THEN Return(p, "panic") /\ UNCHANGED lb
       ELSE IF resourceGroupAndLBNameFromId(d[p].loadbalancer_id) = ""
       THEN Return(p, "error") /\ UNCHANGED lb
       ELSE /\ lb' = [lb EXCEPT ![p].InboundNatPools =
                        SpliceNatPool(lb[p], e.pool, d[p].name)]
            /\ pc' = [pc EXCEPT ![p] = "submit"]
            /\ UNCHANGED outcome
  /\ UNCHANGED << remote, locks, kind, d, d0, calls, waits, started, applied,
                  polled, failed, cancelled >>

\* Lines 234-246: locate the element; absent means already deleted.
DeleteLocate(p) ==
  /\ pc[p] = "build"
  /\ kind[p] = "delete"
  /\ LET index == findLoadBalancerNatPoolByName(lb[p], d[p].name) IN
       IF index = 0
       THEN Return(p, "ok") /\ UNCHANGED lb
       ELSE IF resourceGroupAndLBNameFromId(d[p].loadbalancer_id) = ""
       THEN Return(p, "error") /\ UNCHANGED lb
       ELSE /\ lb' = [lb EXCEPT ![p].InboundNatPools = RemoveNatPool(lb[p], index)]
            /\ pc' = [pc EXCEPT ![p] = "submit"]
            /\ UNCHANGED outcome
  /\ UNCHANGED << remote, locks, kind, d, d0, calls, waits, started, applied,
                  polled, failed, cancelled >>

SubmitSkipsAwait(p) ==
  /\ pc[p] = "submit"
  /\ Called(p, "submit")
  /\ \E res \in CallResults({"ok", "err"}) :
       LET l == ParentOf(d[p]) IN
       IF res = "err"
       THEN Return(p, "error") /\ Failed(p, "submit") /\ UNCHANGED << remote, applied >>
       ELSE /\ remote' = [remote EXCEPT ![l].lb = Persist(l, lb[p])]
            /\ applied' = [applied EXCEPT ![l] =
                             IF kind[p] = "delete" THEN @ \ {d[p].name}
                             ELSE @ \cup {d[p].name}]
            /\ pc' = [pc EXCEPT ![p] = "refetch"]
            /\ UNCHANGED << outcome, failed >>
  /\ UNCHANGED << locks, kind, d, d0, lb, waits, started, polled, cancelled >>

\* client.CreateOrUpdate (lines 124-127, 248-251): the whole aggregate is sent.
Submit(p) ==
  /\ pc[p] = "submit"
  /\ Called(p, "submit")
  /\ \E res \in CallResults({"ok", "err"}) :
       LET l == ParentOf(d[p]) IN
       IF res = "err"
       THEN Return(p, "error") /\ Failed(p, "submit") /\ UNCHANGED << remote, applied >>
       ELSE /\ remote' = [remote EXCEPT ![l].lb = Persist(l, lb[p])]
            /\ applied' = [applied EXCEPT ![l] =
                             IF kind[p] = "delete" THEN @ \ {d[p].name}
                             ELSE @ \cup {d[p].name}]
            /\ pc' = [pc EXCEPT ![p] = "await"]
            /\ UNCHANGED << outcome, failed >>
  /\ UNCHANGED << locks, kind, d, d0, lb, waits, started, polled, cancelled >>

AwaitIgnoresError(p) ==
  /\ pc[p] = "await"
  /\ Called(p, "await")
  /\ \E res \in CallResults({"ok", "err"}) :
       /\ IF res = "err" THEN Failed(p, "await") ELSE UNCHANGED failed
       /\ pc' = [pc EXCEPT ![p] = "refetch"]
       /\ UNCHANGED outcome
  /\ UNCHANGED << remote, locks, kind, d, d0, lb, waits, started, applied,
                  polled, cancelled >>

\* future.WaitForCompletionRef (lines 129-132, 253-256).
Await(p) ==
  /\ pc[p] = "await"
  /\ Called(p, "await")
  /\ \E res \in CallResults({"ok", "err"}) :
       IF res = "err"
       THEN Return(p, "error") /\ Failed(p, "await")
       ELSE pc' = [pc EXCEPT ![p] = "refetch"] /\ UNCHANGED << outcome, failed >>
  /\ UNCHANGED << remote, locks, kind, d, d0, lb, waits, started, applied,
                  polled, cancelled >>

\* Lines 134-153: re-fetch the parent and take the element's identifier. The
\* response may lack the aggregate's identifier, its properties, or the
\* identifiers of its elements.
CreateUpdateRefetch(p) ==
  /\ pc[p] = "refetch"
  /\ kind[p] = "create_or_update"
  /\ Called(p, "refetch")
  /\ \E res \in CallResults({"ok", "err", "noid", "noprops", "nopoolid"}) :
       LET read == IF res = "nopoolid"
                   THEN WithoutNatPoolIds(remote[ParentOf(d[p])].lb)
                   ELSE remote[ParentOf(d[p])].lb
           natPoolId == CreatedNatPoolId(read, d[p].name)
       IN IF res = "err"
          THEN Return(p, "error") /\ Failed(p, "refetch") /\ UNCHANGED d
          ELSE IF res = "noid"
          THEN Return(p, "error") /\ UNCHANGED << d, failed >>
          ELSE IF res = "noprops"
          THEN Return(p, "panic") /\ UNCHANGED << d, failed >>
          ELSE IF CreatedNatPoolIdPanics(read, d[p].name)
          THEN Return(p, "panic") /\ UNCHANGED << d, failed >>
          ELSE IF natPoolId = NoId
          THEN Return(p, "error") /\ UNCHANGED << d, failed >>
          ELSE /\ SetId(p, natPoolId)
               /\ pc' = [pc EXCEPT ![p] = "poll"]
               /\ UNCHANGED << outcome, failed >>
  /\ UNCHANGED << remote, locks, kind, d0, lb, waits, started, applied,
                  polled, cancelled >>

\* Lines 258-266: re-fetch the parent; only its identifier is looked at.
DeleteRefetch(p) ==
  /\ pc[p] = "refetch"
  /\ kind[p] = "delete"
  /\ Called(p, "refetch")
  /\ \E res \in CallResults({"ok", "err", "noid", "noprops"}) :
       IF res = "err"
       THEN Return(p, "error") /\ Failed(p, "refetch")
       ELSE IF res = "noid"
       THEN Return(p, "error") /\ UNCHANGED failed
       ELSE Return(p, "ok") /\ UNCHANGED failed
  /\ UNCHANGED << remote, locks, kind, d, d0, lb, waits, started, applied,
                  polled, cancelled >>

PendingStates == {"Accepted", "Updating"}

TargetStatesWithUpdating == {"Succeeded", "Updating"}

TargetStates == {"Succeeded"}
ProvisioningStates == PendingStates \cup TargetStates \cup {"Failed"}

\* The poll with refreshes that do not observe the StopContext.
CreateUpdatePollWithoutContext(p) ==
  /\ pc[p] = "poll"
  /\ IF polled[p] = <<>> THEN Called(p, "poll") ELSE UNCHANGED calls
  /\ \E s \in ProvisioningStates \cup {"err"} :
       /\ polled' = [polled EXCEPT ![p] = Append(@, s)]
       /\ IF s \in TargetStates
          THEN /\ pc' = [pc EXCEPT ![p] = "read"]
               /\ UNCHANGED << outcome, waits, failed >>
          ELSE IF s \in PendingStates /\ waits[p] < MaxWaits
          THEN /\ waits' = [waits EXCEPT ![p] = @ + 1]
               /\ UNCHANGED << pc, outcome, failed >>
          ELSE /\ Return(p, "error")
               /\ Failed(p, IF s = "err" THEN "poll"
                             ELSE IF s \in PendingStates THEN "timeout"
                             ELSE "unexpected state")
               /\ UNCHANGED waits
  /\ UNCHANGED << remote, locks, kind, d, d0, lb, started, applied, cancelled >>

\* Lines 157-165: one refresh of stateConf.WaitForState. The refresh reads the
\* load balancer's provisioning state (or fails); a target state ends the wait
\* with success, a pending state is followed by one more wait cycle unless the
\* timeout has expired, and anything else is an error.
CreateUpdatePoll(p) ==
  /\ pc[p] = "poll"
  /\ IF polled[p] = <<>> THEN Called(p, "poll") ELSE UNCHANGED calls
  /\ \E s \in CallResults(ProvisioningStates \cup {"err"}) :
       /\ polled' = [polled EXCEPT ![p] = Append(@, s)]
       /\ IF s \in TargetStates
          THEN /\ pc' = [pc EXCEPT ![p] = "read"]
               /\ UNCHANGED << outcome, waits, failed >>
          ELSE IF s \in PendingStates /\ waits[p] < MaxWaits
          THEN /\ waits' = [waits EXCEPT ![p] = @ + 1]
               /\ UNCHANGED << pc, outcome, failed >>
          ELSE /\ Return(p, "error")
               /\ Failed(p, IF s = "err" THEN "poll"
                             ELSE IF s \in PendingStates THEN "timeout"
                             ELSE "unexpected state")
               /\ UNCHANGED waits
  /\ UNCHANGED << remote, locks, kind, d, d0, lb, started, applied, cancelled >>

ProjectedWrongSegment(dd, config) ==
  LET base == [dd EXCEPT !.name = config.Name,
                         !.protocol = config.Protocol,
                         !.frontend_port_start = config.FrontendPortRangeStart,
                         !.frontend_port_end = config.FrontendPortRangeEnd,
                         !.backend_port = config.BackendPort]
  IN IF config.FrontendIPConfiguration = NoId THEN base
     ELSE [base EXCEPT
             !.frontend_ip_configuration_name =
                PathValue(config.FrontendIPConfiguration, "loadBalancers"),
             !.frontend_ip_configuration_id = config.FrontendIPConfiguration]

\* resourceArmLoadBalancerNatPoolRead, lines 194-201: the fields that are set
\* before the element's frontend IP configuration is looked at.
ProjectedBase(dd, config) ==
  [dd EXCEPT !.name = config.Name,
             !.protocol = config.Protocol,
             !.frontend_port_start = config.FrontendPortRangeStart,
             !.frontend_port_end = config.FrontendPortRangeEnd,
             !.backend_port = config.BackendPort]

\* resourceArmLoadBalancerNatPoolRead, lines 194-212: the fields projected from
\* the found element.
Projected(dd, config) ==
  LET base == ProjectedBase(dd, config)
  IN IF config.FrontendIPConfiguration = NoId THEN base
     ELSE [base EXCEPT
             !.frontend_ip_configuration_name =
                PathValue(config.FrontendIPConfiguration, "frontendIPConfigurations"),
             !.frontend_ip_configuration_id = config.FrontendIPConfiguration]

\* resourceArmLoadBalancerNatPoolRead (lines 170-215), standalone or as the
\* last call of create/update, on the result `res` of its fetch and the
\* aggregate `rem` the fetch brought: [d, outcome]. The name, protocol and ports are
\* set (194-201) before the frontend IP configuration's identifier is
\* dereferenced and parsed (204-207): a nil identifier panics and one that
\* does not parse returns the error, both with those fields already set.
ReadResult(dd, res, rem) ==
  LET name == PathValue(dd.id, "inboundNatPools")
      index == findLoadBalancerNatPoolByName(rem.lb, name)
  IN IF parseAzureResourceIDFails(dd.id) THEN [d |-> dd, outcome |-> "error"]
     ELSE IF res = "err" THEN [d |-> dd, outcome |-> "error"]
     ELSE IF ~rem.exists THEN [d |-> [dd EXCEPT !.id = NoId], outcome |-> "ok"]
     ELSE IF index = 0 THEN [d |-> [dd EXCEPT !.id = NoId], outcome |-> "ok"]
     ELSE LET config == rem.lb.InboundNatPools[index]
              feipConfig == config.FrontendIPConfiguration
          IN IF feipConfig = NoId
             THEN [d |-> Projected(dd, config), outcome |-> "ok"]
             ELSE IF feipConfig = SubResourceWithoutId
             THEN [d |-> ProjectedBase(dd, config), outcome |-> "panic"]
             ELSE IF parseAzureResourceIDFails(feipConfig)
             THEN [d |-> ProjectedBase(dd, config), outcome |-> "error"]
             ELSE [d |-> Projected(dd, config), outcome |-> "ok"]

ReadUnderLock(p) ==
  /\ pc[p] = "read"
  /\ ~Held(LockKey(d[p]))
  /\ IF parseAzureResourceIDFails(d[p].id) THEN UNCHANGED calls ELSE Called(p, "read")
  /\ \E res \in CallResults({"ok", "err"}), rem \in {remote[ParentOf(d[p])]} :
     \E loadBalancer \in FetchResponses(rem.lb) :
       LET r == ReadResult(d[p], res, [rem EXCEPT !.lb = loadBalancer]) IN
         /\ d' = [d EXCEPT ![p] = r.d]
         /\ outcome' = [outcome EXCEPT ![p] = r.outcome]
         /\ IF res = "err" /\ ~parseAzureResourceIDFails(d[p].id)
            THEN Failed(p, "read") ELSE UNCHANGED failed
  /\ pc' = [pc EXCEPT ![p] = IF kind[p] = "read" THEN "done" ELSE "unlock"]
  /\ ForgetPoll(p)
  /\ UNCHANGED << remote, locks, kind, d0, lb, started, applied, cancelled >>

Read(p) ==
  /\ pc[p] = "read"
  /\ IF parseAzureResourceIDFails(d[p].id) THEN UNCHANGED calls ELSE Called(p, "read")
  /\ \E res \in CallResults({"ok", "err"}), rem \in {remote[ParentOf(d[p])]} :
     \E loadBalancer \in FetchResponses(rem.lb) :
       LET r == ReadResult(d[p], res, [rem EXCEPT !.lb = loadBalancer]) IN
         /\ d' = [d EXCEPT ![p] = r.d]
         /\ outcome' = [outcome EXCEPT ![p] = r.outcome]
         /\ IF res = "err" /\ ~parseAzureResourceIDFails(d[p].id)
            THEN Failed(p, "read") ELSE UNCHANGED failed
  /\ pc' = [pc EXCEPT ![p] = IF kind[p] = "read" THEN "done" ELSE "unlock"]
  /\ ForgetPoll(p)
  /\ UNCHANGED << remote, locks, kind, d0, lb, started, applied, cancelled >>

\* The provider's StopContext (lines 87, 219) is cancelled while handlers run.
Cancel ==
  /\ ~cancelled
  /\ \E p \in Procs : pc[p] \notin {"idle", "done"}
  /\ cancelled' = TRUE
  /\ UNCHANGED << remote, locks, pc, kind, d, d0, lb, outcome, calls, waits, started,
                  applied, polled, failed >>

Next ==
  \E p \in Procs :
    \/ InvokeCreateUpdate(p)
    \/ InvokeRead(p)
    \/ InvokeDelete(p)
    \/ Lock(p)
    \/ Fetch(p)
    \/ CreateUpdateBuild(p)
    \/ DeleteLocate(p)
    \/ Submit(p)
    \/ Await(p)
    \/ CreateUpdateRefetch(p)
    \/ DeleteRefetch(p)
    \/ CreateUpdatePoll(p)
    \/ Read(p)
    \/ Unlock(p)
    \/ Finish(p)

Spec == Init /\ [][Next]_vars

\* The same handlers, with the StopContext cancelled at any moment of the run.
StopSpec == Init /\ [][Next \/ Cancel]_vars


\* One step of the handler worker p is running: each step is one statement or
\* one remote call of lines 85-267, and the call it stands for returns.
HandlerStep(p) ==
  \/ Lock(p)
  \/ Fetch(p)
  \/ CreateUpdateBuild(p)
  \/ DeleteLocate(p)
  \/ Submit(p)
  \/ Await(p)
  \/ CreateUpdateRefetch(p)
  \/ DeleteRefetch(p)
  \/ CreateUpdatePoll(p)
  \/ Read(p)
  \/ Unlock(p)

\* The same handlers, each of them scheduled fairly: a handler whose next step
\* stays possible takes it.
LiveSpec == Init /\ [][Next]_vars /\ \A p \in Procs : WF_vars(HandlerStep(p))


\* ================================================================== claims
Mutating(p) == kind[p] \in {"create_or_update", "delete"}

\* The worker is between acquiring the parent's lock and returning.
InCriticalSection(p) ==
  /\ Mutating(p)
  /\ pc[p] \in {"fetch", "build", "submit", "await", "refetch", "poll", "read", "unlock"}

SameParent(p, q) == ParentOf(d[p]) = ParentOf(d[q])

RemotePools(p) == remote[ParentOf(d[p])].lb.InboundNatPools

\* The handler ran its whole path: every remote call up to the last one.
FullPath(p) ==
  IF kind[p] = "delete" THEN calls[p] = << "fetch", "submit", "await", "refetch" >>
  ELSE calls[p] = << "fetch", "submit", "await", "refetch", "poll", "read" >>

\* C1: two mutating handlers (create_or_update or delete, in any combination)
\* on the same parent are never both between lock acquisition and return, so
\* neither fetches, submits, awaits or re-fetches while the other is inside.
C1_CriticalSectionsNeverOverlap ==
  \A p, q \in Procs :
    (p # q /\ InCriticalSection(p) /\ InCriticalSection(q)) => ~SameParent(p, q)

\* C1 witness: one handler is inside its critical section after its submit
\* while another mutating handler of the same parent waits for the lock.
C1_Witness ==
  \E p, q \in Procs :
    /\ p # q /\ SameParent(p, q) /\ Mutating(p) /\ Mutating(q)
    /\ pc[p] = "await" /\ pc[q] = "lock"

\* C2: no lost update. The copy a handler splices and submits is the one it
\* fetched under the lock and is still the remote's current aggregate when it
\* is submitted; what it submitted is not overwritten while it holds the lock;
\* and the remote collection always holds exactly the names that the submits,
\* applied one after the other, leave.
C2_NoLostUpdate ==
  /\ \A p \in Procs :
       /\ (Mutating(p) /\ pc[p] = "build") =>
            lb[p] \in FetchResponses(remote[ParentOf(d[p])].lb)
       /\ (Mutating(p) /\ pc[p] = "submit") =>
            NameSet(lb[p].InboundNatPools) =
              IF kind[p] = "delete" THEN NameSet(RemotePools(p)) \ {d[p].name}
              ELSE NameSet(RemotePools(p)) \cup {d[p].name}
       /\ (Mutating(p) /\ pc[p] \in {"await", "refetch", "poll"}) =>
            remote[ParentOf(d[p])].lb = Persist(ParentOf(d[p]), lb[p])
  /\ \A l \in LBNames : NameSet(remote[l].lb.InboundNatPools) = applied[l]

\* C2 witness: two handlers on distinct names of one parent have both
\* submitted and succeeded, and the collection shows both effects.
C2_Witness ==
  \E p, q \in Procs :
    /\ p # q /\ SameParent(p, q) /\ d[p].name # d[q].name
    /\ kind[p] = "create_or_update" /\ kind[q] = "delete"
    /\ pc[p] = "done" /\ outcome[p] = "ok" /\ FullPath(p)
    /\ pc[q] = "unlock" /\ outcome[q] = "ok" /\ FullPath(q)
    /\ d[p].name \in NameSet(RemotePools(p))
    /\ d[q].name \notin NameSet(RemotePools(q))

\* C3: a mutating handler that has returned holds no lock, whatever the exit
\* path, and every held lock belongs to a handler that is between acquire and
\* return on that key.
C3_LockReleasedOnEveryExit ==
  /\ \A p \in Procs : pc[p] \in {"idle", "lock", "done"} => ~Holds(p)
  /\ \A e \in locks : InCriticalSection(e[2]) /\ LockKey(d[e[2]]) = e[1]

\* C3 witness: a handler has returned an error after its submit (here at the
\* re-fetch) and the lock of its parent is free again.
C3_Witness ==
  \E p \in Procs :
    /\ Mutating(p) /\ pc[p] = "done" /\ outcome[p] = "error"
    /\ calls[p] = << "fetch", "submit", "await", "refetch" >>
    /\ ~Held(LockKey(d[p]))


\* The elements of `pools` named `name`.
Named(pools, name) == {i \in 1..Len(pools) : pools[i].Name = name}

\* The element carries exactly the desired state `dd`, with its frontend
\* reference resolved in load balancer `l`.
BuiltFrom(elem, dd, l) ==
  /\ elem.Name = dd.name
  /\ elem.Protocol = dd.protocol
  /\ elem.FrontendPortRangeStart = dd.frontend_port_start
  /\ elem.FrontendPortRangeEnd = dd.frontend_port_end
  /\ elem.BackendPort = dd.backend_port
  /\ elem.FrontendIPConfiguration = FeipId(l, dd.frontend_ip_configuration_name)

\* C4: full overwrite without duplication. The aggregate create_or_update is
\* about to submit, and the remote aggregate once submitted, hold exactly one
\* element of the desired name, and every field of that element is the new
\* desired state's (the submitted one carries no identifier yet).
C4_FullOverwriteNoDuplicate ==
  \A p \in Procs :
    LET l == ParentOf(d[p]) IN
    /\ (kind[p] = "create_or_update" /\ pc[p] = "submit") =>
         LET pools == lb[p].InboundNatPools
             hits == Named(pools, d[p].name)
         IN /\ Cardinality(hits) = 1
            /\ \A i \in hits : BuiltFrom(pools[i], d0[p], l) /\ pools[i].ID = NoId
    /\ (kind[p] = "create_or_update" /\ pc[p] = "await") =>
         LET pools == remote[l].lb.InboundNatPools
             hits == Named(pools, d[p].name)
         IN /\ Cardinality(hits) = 1
            /\ \A i \in hits : BuiltFrom(pools[i], d0[p], l)

\* C4 witness: create_or_update is about to submit for a name whose element
\* is in the remote collection with other field values.
C4_Witness ==
  \E p \in Procs :
    /\ kind[p] = "create_or_update" /\ pc[p] = "submit"
    /\ \E i \in Named(RemotePools(p), d[p].name) :
         /\ RemotePools(p)[i].Protocol # d0[p].protocol
         /\ RemotePools(p)[i].BackendPort # d0[p].backend_port
         /\ RemotePools(p)[i].FrontendIPConfiguration
              # FeipId(ParentOf(d[p]), d0[p].frontend_ip_configuration_name)

\* C5: in every reachable state the names of each parent's remote NAT-pool
\* collection are pairwise distinct.
C5_RemoteNamesUnique ==
  \A l \in LBNames :
    LET pools == remote[l].lb.InboundNatPools IN
      \A i, j \in 1..Len(pools) : pools[i].Name = pools[j].Name => i = j

\* C5 witness: a single create_or_update of a name that was in a collection of
\* two has been persisted (the replaced name now comes last).
C5_Witness ==
  \E p \in Procs :
    /\ started = 1 /\ kind[p] = "create_or_update" /\ pc[p] = "await"
    /\ Names(RemotePools(p)) = << "pool2", "pool1" >>

\* C6: round trip. When create_or_update has run its whole path and returns
\* success, its closing read found the element: the record holds the
\* element's identifier and the identifier of its frontend IP configuration,
\* and the observed name, protocol, frontend port start and end, backend port
\* and frontend IP configuration name equal the desired values it was invoked
\* with.
C6_RoundTrip ==
  \A p \in Procs :
    ( /\ kind[p] = "create_or_update" /\ pc[p] = "unlock"
      /\ outcome[p] = "ok" /\ FullPath(p) ) =>
        /\ d[p].id = NatPoolId(ParentOf(d[p]), d0[p].name)
        /\ d[p].frontend_ip_configuration_id =
             FeipId(ParentOf(d[p]), d0[p].frontend_ip_configuration_name)
        /\ d[p].name = d0[p].name
        /\ d[p].protocol = d0[p].protocol
        /\ d[p].frontend_port_start = d0[p].frontend_port_start
        /\ d[p].frontend_port_end = d0[p].frontend_port_end
        /\ d[p].backend_port = d0[p].backend_port
        /\ d[p].frontend_ip_configuration_name = d0[p].frontend_ip_configuration_name

\* C6 witness: create_or_update of a new configuration over an existing pool
\* has succeeded through its closing read.
C6_Witness ==
  \E p \in Procs :
    /\ kind[p] = "create_or_update" /\ pc[p] = "unlock"
    /\ outcome[p] = "ok" /\ FullPath(p)
    /\ d[p].protocol = "Udp" /\ d[p].frontend_port_end = 65535
    /\ d[p].frontend_ip_configuration_id = FeipId(ParentOf(d[p]), "feip2")


\* The step is worker p's own step from position `at`.
StepsFrom(p, at) == pc[p] = at /\ pc'[p] # at

\* C7: delete idempotence. (a) When delete returns success after its whole
\* path, the parent's collection no longer holds the name. (b) A read of a
\* name the parent's collection does not hold, unless its fetch call fails, clears
\* the local identifier and returns success. (c) A delete that finds the name
\* absent returns success in that step, makes no submit, and leaves the
\* remote untouched.
C7_DeleteIdempotent ==
  /\ [](\A p \in Procs :
          (kind[p] = "delete" /\ pc[p] = "unlock" /\ outcome[p] = "ok" /\ FullPath(p))
            => d[p].name \notin NameSet(RemotePools(p)))
  /\ [][\A p \in Procs :
          /\ ( /\ StepsFrom(p, "read") /\ kind[p] = "read"
               /\ PathValue(d[p].id, "inboundNatPools") \notin NameSet(RemotePools(p))
               /\ failed'[p] = "none" )
             => (d'[p].id = NoId /\ outcome'[p] = "ok")
          /\ ( /\ StepsFrom(p, "build") /\ kind[p] = "delete"
               /\ d[p].name \notin NameSet(RemotePools(p)) )
             => ( /\ outcome'[p] = "ok" /\ pc'[p] = "unlock"
                  /\ calls'[p] = << "fetch" >>
                  /\ remote' = remote )]_vars

\* C7 witness: after a delete of a name has succeeded through its whole path,
\* a second delete of the same name has returned success after its fetch alone.
C7_Witness ==
  \E p, q \in Procs :
    /\ p # q /\ kind[p] = "delete" /\ kind[q] = "delete"
    /\ SameParent(p, q) /\ d[p].name = d[q].name
    /\ pc[p] = "done" /\ outcome[p] = "ok" /\ FullPath(p)
    /\ pc[q] = "unlock" /\ outcome[q] = "ok" /\ calls[q] = << "fetch" >>
    /\ d[q].id # NoId

\* The frontend IP configuration the handler was asked for is not in the
\* parent aggregate it fetched.
FrontendMissing(p) ==
  /\ kind[p] = "create_or_update"
  /\ lb[p] # NoLoadBalancer
  /\ findLoadBalancerFrontEndIpConfigurationByName(
       lb[p], d0[p].frontend_ip_configuration_name) = 0

\* C8: when the desired frontend IP configuration is not in the fetched
\* parent, create_or_update goes from building straight to returning an
\* error: it makes no call after the fetch, the remote parent is still the
\* aggregate it fetched, the local identifier is the one it started with, and
\* once it has returned the lock is released.
C8_MissingFrontendFailsBeforeSubmit ==
  \A p \in Procs :
    FrontendMissing(p) =>
      /\ pc[p] \in {"build", "unlock", "done"}
      /\ calls[p] = << "fetch" >>
      /\ d[p].id = d0[p].id
      /\ pc[p] \in {"unlock", "done"} => outcome[p] = "error"
      /\ pc[p] \in {"build", "unlock"} =>
           lb[p] \in FetchResponses(remote[ParentOf(d[p])].lb)
      /\ pc[p] = "done" => ~Holds(p)

\* C8 witness: an update naming a missing frontend IP configuration has
\* returned its error.
C8_Witness ==
  \E p \in Procs :
    /\ FrontendMissing(p) /\ pc[p] = "done" /\ outcome[p] = "error"
    /\ d0[p].id # NoId /\ d0[p].frontend_ip_configuration_name = "missing"

\* C9: when the parent is not found, a mutating handler makes the fetch and no
\* other call. When the fetch reports not found (the call did not fail) the
\* handler returns success with the local identifier cleared; only when the
\* fetch call itself failed does it return an error, the identifier as it
\* was. The lock is released once the handler has returned. A read in the
\* same situation returns success with the identifier cleared, and an error
\* only when its fetch call failed.
C9_ParentNotFoundIsGone ==
  \A p \in Procs :
    (kind[p] # "none" /\ ~remote[ParentOf(d[p])].exists) =>
      /\ Mutating(p) => pc[p] \in {"lock", "fetch", "unlock", "done"}
      /\ (Mutating(p) /\ pc[p] = "unlock") =>
           /\ calls[p] = << "fetch" >>
           /\ failed[p] \in {"none", "fetch"}
           /\ failed[p] = "none" => (outcome[p] = "ok" /\ d[p].id = NoId)
           /\ failed[p] = "fetch" => (outcome[p] = "error" /\ d[p].id = d0[p].id)
           /\ Holds(p) /\ ENABLED Unlock(p)
      /\ (Mutating(p) /\ pc[p] = "done") =>
           /\ calls[p] = << "fetch" >>
           /\ outcome[p] \in {"ok", "error"}
           /\ outcome[p] = "ok" => d[p].id = NoId
           /\ outcome[p] = "error" => d[p].id = d0[p].id
           /\ ~Holds(p)
      /\ (kind[p] = "read" /\ pc[p] = "done") =>
           /\ calls[p] = << "read" >>
           /\ failed[p] \in {"none", "read"}
           /\ failed[p] = "none" => (outcome[p] = "ok" /\ d[p].id = NoId)
           /\ failed[p] = "read" => (outcome[p] = "error" /\ d[p].id = d0[p].id)

\* C9 witness: a create_or_update and a delete of a pool whose parent is gone
\* have both returned success with the identifier they were given cleared.
C9_Witness ==
  \E p, q \in Procs :
    /\ kind[p] = "create_or_update" /\ kind[q] = "delete"
    /\ ~remote[ParentOf(d[p])].exists /\ ~remote[ParentOf(d[q])].exists
    /\ pc[p] = "done" /\ outcome[p] = "ok" /\ d0[p].id # NoId /\ d[p].id = NoId
    /\ pc[q] = "done" /\ outcome[q] = "ok" /\ d0[q].id # NoId /\ d[q].id = NoId

\* C10: the lock is scoped to the parent. A handler waiting for the lock can
\* take it whenever no other handler is inside a critical section of the same
\* parent, whatever is held for other parents; and two handlers inside
\* critical sections at once hold different keys for different parents.
C10_LockScopedPerParent ==
  /\ \A p \in Procs :
       ( /\ pc[p] = "lock"
         /\ \A q \in Procs : (q # p /\ InCriticalSection(q)) => ~SameParent(p, q) )
       => ENABLED Lock(p)
  /\ \A p, q \in Procs :
       (p # q /\ InCriticalSection(p) /\ InCriticalSection(q)) =>
         /\ LockKey(d[p]) # LockKey(d[q])
         /\ << LockKey(d[p]), p >> \in locks
         /\ << LockKey(d[q]), q >> \in locks

\* C10 witness: two handlers on different parents are both between submit and
\* return.
C10_Witness ==
  \E p, q \in Procs :
    /\ p # q /\ ~SameParent(p, q)
    /\ Mutating(p) /\ Mutating(q)
    /\ pc[p] = "await" /\ pc[q] = "await"

Range(s) == {s[i] : i \in 1..Len(s)}

Last(s) == s[Len(s)]

\* C11: completion polling with pending set {Accepted, Updating} and terminal
\* set {Succeeded}. When WaitForState has returned success, the last state it
\* observed is Succeeded, every state before it was Accepted or Updating, and
\* it made one wait cycle per pending observation; so the sequence Accepted,
\* Updating, Succeeded succeeds after exactly two wait cycles. It never makes
\* more wait cycles than the timeout allows, and when every observation up to
\* the timeout was Updating it fails with a timeout and create_or_update
\* returns an error.
C11_CompletionPolling ==
  \A p \in Procs :
    /\ waits[p] <= MaxWaits
    /\ (kind[p] = "create_or_update" /\ pc[p] = "read") =>
         /\ polled[p] # <<>>
         /\ Last(polled[p]) = "Succeeded"
         /\ \A i \in 1..(Len(polled[p]) - 1) : polled[p][i] \in {"Accepted", "Updating"}
         /\ waits[p] = Len(polled[p]) - 1
         /\ outcome[p] = "none"
    /\ polled[p] = << "Accepted", "Updating", "Succeeded" >> =>
         (pc[p] = "read" /\ waits[p] = 2)
    /\ (polled[p] # <<>> /\ Last(polled[p]) \in {"Accepted", "Updating"}) =>
         \/ pc[p] = "poll" /\ waits[p] = Len(polled[p])
         \/ /\ pc[p] = "unlock" /\ outcome[p] = "error" /\ failed[p] = "timeout"
            /\ waits[p] = MaxWaits /\ Len(polled[p]) = MaxWaits + 1
    /\ (Len(polled[p]) = MaxWaits + 1 /\ Range(polled[p]) = {"Updating"}) =>
         (pc[p] = "unlock" /\ outcome[p] = "error" /\ failed[p] = "timeout")

\* C11 witness: one create_or_update has polled Accepted, Updating, Succeeded
\* and moved on after two wait cycles, while another stayed in Updating until
\* the timeout and is returning the timeout error.
C11_Witness ==
  \E p, q \in Procs :
    /\ polled[p] = << "Accepted", "Updating", "Succeeded" >>
    /\ pc[p] = "read" /\ waits[p] = 2
    /\ polled[q] = << "Updating", "Updating", "Updating" >>
    /\ pc[q] = "unlock" /\ outcome[q] = "error" /\ failed[q] = "timeout"

IsPrefix(s, t) == Len(s) <= Len(t) /\ s = SubSeq(t, 1, Len(s))

\* The remote calls of create_or_update, in the order of lines 93-167.
CreateUpdateCalls == << "fetch", "submit", "await", "refetch", "poll", "read" >>

\* WaitForState has returned success: the poller observed a target state.
PollerObservedTerminal(p) ==
  /\ "poll" \in Range(calls[p])
  /\ pc[p] = "read" \/ "read" \in Range(calls[p])

\* The handler has changed the local identifier to a non-empty value.
IdentifierAssigned(p) == d[p].id # d0[p].id /\ d[p].id # NoId

\* C12 as stated: create_or_update makes the re-fetch and assigns the
\* identifier only once the Completion Poller (pending {Accepted, Updating},
\* terminal {Succeeded}) has observed a terminal state for the submit.
C12_RefetchAfterPollerTerminal ==
  \A p \in Procs :
    (kind[p] = "create_or_update" /\ ("refetch" \in Range(calls[p]) \/ IdentifierAssigned(p)))
      => PollerObservedTerminal(p)

\* C12 as amended: the calls of create_or_update are made in the order fetch,
\* submit, await of the submit's asynchronous operation, re-fetch, provisioning
\* state poll, closing read. The re-fetch is made only after the await has
\* returned without error, with the submitted aggregate persisted; the
\* identifier is assigned only after the re-fetch; and the provisioning-state
\* poll starts only after the identifier has been assigned.
C12_SubmitAwaitRefetchThenPoll ==
  \A p \in Procs :
    kind[p] = "create_or_update" =>
      /\ IsPrefix(calls[p], CreateUpdateCalls)
      /\ pc[p] = "refetch" =>
           /\ calls[p] = << "fetch", "submit", "await" >>
           /\ outcome[p] = "none" /\ failed[p] = "none"
           /\ remote[ParentOf(d[p])].lb = Persist(ParentOf(d[p]), lb[p])
      /\ IdentifierAssigned(p) => "refetch" \in Range(calls[p])
      /\ "poll" \in Range(calls[p]) => d[p].id # NoId \/ "read" \in Range(calls[p])
      /\ pc[p] = "poll" =>
           /\ d[p].id = NatPoolId(ParentOf(d[p]), d[p].name)
           /\ IsPrefix(<< "fetch", "submit", "await", "refetch" >>, calls[p])

\* C12 witness: a create has made its re-fetch and recorded the new
\* identifier, and the provisioning-state poll has not observed anything yet.
C12_Witness ==
  \E p \in Procs :
    /\ kind[p] = "create_or_update" /\ pc[p] = "poll"
    /\ d0[p].id = NoId /\ d[p].id = NatPoolId(ParentOf(d[p]), d[p].name)
    /\ calls[p] = << "fetch", "submit", "await", "refetch" >>
    /\ polled[p] = <<>>

\* C13 as stated: a create_or_update that ends at its re-fetch (the call
\* failed, or the re-fetched aggregate has no properties, no identifier, or no
\* element of the desired name) returns an error, an ordinary failed outcome.
C13_RefetchFailureReturnsError ==
  \A p \in Procs :
    ( /\ kind[p] = "create_or_update" /\ pc[p] \in {"unlock", "done"}
      /\ calls[p] # <<>> /\ Last(calls[p]) = "refetch" )
    => outcome[p] = "error"

\* C14: create_or_update sets the local identifier to a non-empty value only
\* after submit, await and re-fetch have been made in that order, and the
\* value is the identifier the remote gave the re-fetched element of the
\* desired name; before the re-fetch the identifier is the one the handler
\* started with or empty; and the element built into the aggregate that is
\* about to be submitted carries no identifier.
C14_IdentifierOnlyAfterPersisted ==
  \A p \in Procs :
    kind[p] = "create_or_update" =>
      /\ "refetch" \notin Range(calls[p]) => d[p].id \in {d0[p].id, NoId}
      /\ IdentifierAssigned(p) =>
           /\ IsPrefix(<< "fetch", "submit", "await", "refetch" >>, calls[p])
           /\ d[p].id = NatPoolId(ParentOf(d[p]), d0[p].name)
      /\ pc[p] = "poll" =>
           \E i \in Named(RemotePools(p), d0[p].name) : d[p].id = RemotePools(p)[i].ID
      /\ pc[p] = "submit" =>
           /\ Named(lb[p].InboundNatPools, d0[p].name) # {}
           /\ \A i \in Named(lb[p].InboundNatPools, d0[p].name) :
                lb[p].InboundNatPools[i].ID = NoId

\* C14 witness: a create that started without an identifier has returned
\* success with the identifier of its pool recorded.
C14_Witness ==
  \E p \in Procs :
    /\ kind[p] = "create_or_update" /\ pc[p] = "done" /\ outcome[p] = "ok"
    /\ d0[p].id = NoId /\ d[p].id = NatPoolId(ParentOf(d[p]), d0[p].name)
    /\ FullPath(p)

\* The designed cases in which a mutating handler succeeds after its fetch
\* alone: the parent is not found, or delete finds the element already gone.
DesignedEarlySuccess(p) ==
  /\ calls[p] = << "fetch" >>
  /\ \/ ~remote[ParentOf(d[p])].exists
     \/ /\ kind[p] = "delete" /\ lb[p] # NoLoadBalancer
        /\ findLoadBalancerNatPoolByName(lb[p], d[p].name) = 0

\* C15: no internal retry and no swallowed error. A mutating handler makes the
\* submit call at most once; when its fetch, submit, await or re-fetch call
\* has failed, that call is the last one it made and it is returning an
\* error; and it returns success only after its whole path or in a designed
\* case (parent not found, element already deleted).
C15_NoRetryNoSwallowedError ==
  \A p \in Procs :
    Mutating(p) =>
      /\ Cardinality({i \in 1..Len(calls[p]) : calls[p][i] = "submit"}) <= 1
      /\ failed[p] \in {"fetch", "submit", "await", "refetch"} =>
           /\ pc[p] = "unlock" /\ outcome[p] = "error"
           /\ Last(calls[p]) = failed[p]
      /\ outcome[p] = "error" => pc[p] \in {"unlock", "done"}
      /\ outcome[p] = "ok" => (FullPath(p) \/ DesignedEarlySuccess(p))

\* C15 witness: the await of a submitted update has failed and the handler is
\* returning the error, having made no call after it.
C15_Witness ==
  \E p \in Procs :
    /\ Mutating(p) /\ failed[p] = "await"
    /\ pc[p] = "unlock" /\ outcome[p] = "error"
    /\ calls[p] = << "fetch", "submit", "await" >>

\* The parent of the record is not found, or holds no NAT pool of the name
\* that the record's identifier carries.
MissingRemotely(dd) ==
  \/ ~remote[ParentOf(dd)].exists
  \/ PathValue(dd.id, "inboundNatPools") \notin NameSet(remote[ParentOf(dd)].lb.InboundNatPools)

\* C16: read acquires no lock and makes no submit. A standalone read holds no
\* lock and can always take its step, whoever holds the parent's lock; its
\* step is its only call, leaves the remote aggregates and the lock registry
\* as they are, and, unless the fetch fails, clears the identifier exactly
\* when the parent or the named element is missing, returning success; when
\* the fetch fails the record is left as it was.
C16_ReadTakesNoLock ==
  /\ [](\A p \in Procs :
          kind[p] = "read" =>
            /\ ~Holds(p)
            /\ pc[p] = "read" => ENABLED Read(p))
  /\ [][\A p \in Procs :
          (kind[p] = "read" /\ StepsFrom(p, "read")) =>
            /\ remote' = remote /\ locks' = locks /\ applied' = applied
            /\ calls'[p] = << "read" >>
            /\ pc'[p] = "done"
            /\ outcome'[p] \in {"ok", "error"}
            /\ outcome'[p] = "ok" => ((d'[p].id = NoId) <=> MissingRemotely(d[p]))
            /\ outcome'[p] = "error" => d'[p] = d[p]]_vars

\* C16 witness: a read has found its pool and returned while a mutating
\* handler of the same parent is inside its critical section.
C16_Witness ==
  \E p, q \in Procs :
    /\ kind[p] = "read" /\ pc[p] = "done" /\ outcome[p] = "ok"
    /\ d[p].id # NoId /\ d[p].protocol = "Tcp" /\ calls[p] = << "read" >>
    /\ Mutating(q) /\ SameParent(p, q) /\ pc[q] = "submit" /\ Holds(q)

\* The handler is waiting on a remote call made with the StopContext.
WaitingOnRemoteCall(p) ==
  Mutating(p) /\ pc[p] \in {"submit", "await", "refetch", "poll"}

\* Worker p takes a step of its handler.
Steps(p) == << pc[p], calls[p], polled[p] >>' # << pc[p], calls[p], polled[p] >>

\* C17: once the StopContext is cancelled, the remote call a create_or_update
\* or delete is waiting on (submit, await, re-fetch, a refresh of the poll)
\* ends the handler with an error: the step returns an error, makes no change
\* to the remote, is followed by the deferred unlock, never turns into
\* success, and the handler that has returned holds no lock.
C17_CancellationReturnsError ==
  /\ [](\A p \in Procs :
          Mutating(p) =>
            /\ pc[p] = "unlock" => ENABLED Unlock(p)
            /\ pc[p] = "done" => ~Holds(p))
  /\ [][\A p \in Procs :
          /\ (cancelled /\ WaitingOnRemoteCall(p) /\ Steps(p)) =>
               /\ outcome'[p] = "error" /\ pc'[p] = "unlock"
               /\ remote' = remote
               /\ d'[p] = d[p]
          /\ (Mutating(p) /\ outcome[p] = "error" /\ pc[p] = "unlock") =>
               outcome'[p] = "error"]_vars

\* C17 witness: the StopContext was cancelled while one handler was between
\* two refreshes of its poll, and another handler, whose await was the last
\* call it made, has returned an error and its parent's lock is free.
C17_Witness ==
  \E p, q \in Procs :
    /\ cancelled /\ p # q
    /\ Mutating(p) /\ pc[p] = "done" /\ outcome[p] = "error"
    /\ calls[p] = << "fetch", "submit", "await" >> /\ ~Held(LockKey(d[p]))
    /\ pc[q] = "poll" /\ polled[q] = << "Accepted" >>

\* C18: under weak fairness of each handler's steps, a handler that requests
\* its parent's lock acquires it, and every handler that has started returns
\* with success (which includes gone) or with an error.
C18_Progress ==
  \A p \in Procs :
    /\ (pc[p] = "lock") ~> Holds(p)
    /\ (pc[p] \notin {"idle", "done"}) ~>
         (pc[p] = "done" /\ outcome[p] \in {"ok", "error"})

\* The elements of `pools` whose name differs from `name`, in their order.
OthersThan(pools, name) ==
  LET Other(e) == e.Name # name IN SelectSeq(pools, Other)

\* C19: frame of the splice. The step of create_or_update that builds the
\* aggregate to submit keeps every fetched element of another name, unchanged
\* and in order, and puts the new element last; the step of delete keeps
\* exactly the fetched elements other than the one named; the submit sends
\* these elements as they are; and no step changes a parent's frontend IP
\* configurations, in the local copy or in the remote.
C19_SpliceFrame ==
  /\ [](\A l \in LBNames : remote[l].lb.FrontendIPConfigurations = InitialFeips(l))
  /\ [][\A p \in Procs :
          LET n == d[p].name
              fetched == lb[p].InboundNatPools
          IN
          /\ (pc[p] = "build" /\ pc'[p] = "submit" /\ kind[p] = "create_or_update") =>
               /\ lb'[p].InboundNatPools =
                    Append(OthersThan(fetched, n),
                           expandAzureRmLoadBalancerNatPool(d[p], lb[p]).pool)
               /\ Last(lb'[p].InboundNatPools).Name = n
               /\ lb'[p].FrontendIPConfigurations = lb[p].FrontendIPConfigurations
               /\ lb'[p].ID = lb[p].ID
          /\ (pc[p] = "build" /\ pc'[p] = "submit" /\ kind[p] = "delete") =>
               /\ lb'[p].InboundNatPools = OthersThan(fetched, n)
               /\ Len(lb'[p].InboundNatPools) = Len(fetched) - 1
               /\ lb'[p].FrontendIPConfigurations = lb[p].FrontendIPConfigurations
               /\ lb'[p].ID = lb[p].ID
          /\ (pc[p] = "submit" /\ pc'[p] = "await") =>
               LET sent == remote'[ParentOf(d[p])].lb IN
               /\ Names(sent.InboundNatPools) = Names(fetched)
               /\ OthersThan(sent.InboundNatPools, n) = OthersThan(fetched, n)
               /\ sent.FrontendIPConfigurations = lb[p].FrontendIPConfigurations]_vars

\* C19 witness: create_or_update of the first of two remote elements is about
\* to submit an aggregate that holds the other element first and the new one
\* last.
C19_Witness ==
  \E p \in Procs :
    /\ kind[p] = "create_or_update" /\ pc[p] = "submit"
    /\ d[p].name = "pool1"
    /\ Names(remote[ParentOf(d[p])].lb.InboundNatPools) = << "pool1", "pool2" >>
    /\ Names(lb[p].InboundNatPools) = << "pool2", "pool1" >>
    /\ lb[p].InboundNatPools[1] = remote[ParentOf(d[p])].lb.InboundNatPools[2]

\* create_or_update of worker p is returning, or has returned, an error.
CreateUpdateReturnsError(p) ==
  kind[p] = "create_or_update" /\ pc[p] \in {"unlock", "done"} /\ outcome[p] = "error"

\* C20 as stated: whenever create_or_update returns an error, the identifier
\* of the local record is the one it had when the operation started.
C20_IdUnchangedOnError ==
  \A p \in Procs : CreateUpdateReturnsError(p) => d[p].id = d0[p].id

\* C20, amended: when create_or_update returns an error from a step before
\* the identifier is recorded (line 153), the identifier of the local record
\* is the one it had when the operation started; when the error comes from
\* the poll or the closing read that follow, the identifier is the one the
\* re-fetch found for the element, whatever it was before.
C20_IdUnchangedUnlessRecorded ==
  \A p \in Procs :
    CreateUpdateReturnsError(p) =>
      IF "poll" \in Range(calls[p])
      THEN d[p].id = NatPoolId(ParentOf(d0[p]), d0[p].name)
      ELSE d[p].id = d0[p].id

\* C20 witness: a create that started without an identifier returns the
\* timeout of its poll, and the local record holds the new identifier.
C20_Witness ==
  \E p \in Procs :
    /\ CreateUpdateReturnsError(p) /\ pc[p] = "unlock"
    /\ failed[p] = "timeout"
    /\ d0[p].id = NoId
    /\ d[p].id = NatPoolId(ParentOf(d0[p]), d0[p].name)

====
